---------------------------- MODULE Spec2Model ----------------------------
(***************************************************************************)
(* A model of match_pdf: the chunked image comparison                      *)
(* (src/src/images.rs), the ignore-rectangle geometry and selection        *)
(* (src/src/main.rs, Rectangle and Config) and the page loop of main.      *)
(*                                                                         *)
(* Images are records [width, height, px] with px the rows of the image,   *)
(* top to bottom, each the sequence of its RGBA pixels <<r, g, b, a>> (the *)
(* row-major buffer of ImageBuffer).  A resolved rectangle carries integer *)
(* pixel coordinates (get_matching_rectangles rounds every coordinate), so *)
(* the f64 fields are modelled by integers that may be negative.           *)
(***************************************************************************)
EXTENDS Integers, Sequences, FiniteSets, TLC

VARIABLES
    pc,                 \* position of the operation or of main
    \* compare_images_in_chunks
    img1, img2,         \* the two page images
    ignore_rects,       \* Option<&Vec<Rectangle>>: None or Some sequence of rectangles
    differing_chunks,   \* the Vec<(u32, u32)> returned
    \* highlight_chunks
    image,              \* the input image
    chunks,             \* the chunk list
    new_image,          \* the image returned
    \* the composite image of main
    doc1_page_completed_image, doc2_page_completed_image,
    combined_image,
    \* Config::get_matching_rectangles
    ignored_rectangles, \* self.ignored_rectangles
    page,               \* the page string
    height_in_points,
    matching_rects,     \* the Vec<Rectangle> returned
    \* Rectangle::overlaps and Rectangle::contains
    rectangle,          \* self
    point,              \* the arguments <<x, y>>
    size_arg,           \* the argument chunk_size of overlaps
    overlaps_result, contains_result,
    \* main
    cli,                \* the parsed command line
    pdf_document_1, pdf_document_2,     \* the pages of the two documents
    config_json,        \* Option<Config>
    final_license_key,  \* Option<String>
    index,              \* the loop variable of the page loop
    differences_found_in_document,
    differences_found_in_page,
    differences_in_number_of_pages,
    page_differences_vector,
    output_pdf,         \* the pages created in the output document
    output_file,        \* Option: the document saved to cli.output
    console,            \* the verdict printed, if any
    result_file,        \* Option: the match_result written to cli.result
    exit_code,          \* how the process ended, "running" until then
    licensing,          \* the calls made to the license service, in order
    rendered,           \* the page numbers render_page was called for
    compared,           \* <<page number, difference list>> of each comparison
    page_errors         \* page numbers whose output page could not be created

compareVars == <<img1, img2, ignore_rects, differing_chunks>>
highlightVars == <<image, chunks, new_image>>
composeVars == <<doc1_page_completed_image, doc2_page_completed_image, combined_image>>
rectVars == <<ignored_rectangles, page, height_in_points, matching_rects>>
geometryVars == <<rectangle, point, size_arg, overlaps_result, contains_result>>

mainVars ==
    <<cli, pdf_document_1, pdf_document_2, config_json, final_license_key, index,
      differences_found_in_document, differences_found_in_page,
      differences_in_number_of_pages, page_differences_vector, output_pdf,
      output_file, console, result_file, exit_code, licensing, rendered, compared,
      page_errors>>

vars == <<pc, compareVars, highlightVars, composeVars, rectVars, geometryVars, mainVars>>

\* Option<T>: None, or Some(v).
None == [is_some |-> FALSE, val |-> <<>>]
Some(v) == [is_some |-> TRUE, val |-> v]

\* The value of a variable the operation under study does not use.
Unused == <<>>
CompareIdle ==
    img1 = Unused /\ img2 = Unused /\ ignore_rects = None /\ differing_chunks = Unused
HighlightIdle == image = Unused /\ chunks = Unused /\ new_image = Unused
ComposeIdle ==
    /\ doc1_page_completed_image = Unused /\ doc2_page_completed_image = Unused
    /\ combined_image = Unused
RectIdle ==
    /\ ignored_rectangles = Unused /\ page = Unused
    /\ height_in_points = 0 /\ matching_rects = Unused
GeometryIdle ==
    /\ rectangle = Unused /\ point = Unused /\ size_arg = 0
    /\ overlaps_result = FALSE /\ contains_result = FALSE
MainIdle ==
    /\ cli = Unused /\ pdf_document_1 = Unused /\ pdf_document_2 = Unused
    /\ config_json = None /\ final_license_key = None /\ index = 0
    /\ differences_found_in_document = FALSE /\ differences_found_in_page = FALSE
    /\ differences_in_number_of_pages = FALSE /\ page_differences_vector = Unused
    /\ output_pdf = Unused /\ output_file = None /\ console = Unused
    /\ result_file = None /\ exit_code = "running" /\ licensing = Unused
    /\ rendered = Unused /\ compared = Unused /\ page_errors = {}

(***************************************************************************)
(* Bounds of the model.                                                    *)
(***************************************************************************)
\* Width and height of the largest modelled image.
MaxWidth == 20
MaxHeight == 20
\* Longest list of ignore rectangles drawn from CuratedRects.
MaxRects == 2

(***************************************************************************)
(* Program constants.                                                      *)
(***************************************************************************)
chunk_size == 10

Min(a, b) == IF a < b THEN a ELSE b

\* Rust's saturating float-to-integer cast `f as u32` on an integer-valued
\* f64: a negative value becomes 0.  (The cast also saturates at 2^32 - 1;
\* every coordinate of the model is far below that.)
AsU32(v) == IF v < 0 THEN 0 ELSE v

(***************************************************************************)
(* Rectangle (main.rs 76-103).                                             *)
(***************************************************************************)
\* A String is the sequence of its characters.
PageAll == <<"a", "l", "l">>
PageEven == <<"e", "v", "e", "n">>
PageOdd == <<"o", "d", "d">>

Rect(p, x1, y1, x2, y2) ==
    [page |-> p, top_left |-> <<x1, y1>>, bottom_right |-> <<x2, y2>>]

overlaps(self, x, y, size) ==
    LET chunk_bottom_right_x == x + size
        chunk_bottom_right_y == y + size
        condition1 == AsU32(self.bottom_right[1]) < x
        condition2 == AsU32(self.top_left[1]) > chunk_bottom_right_x
        condition3 == AsU32(self.bottom_right[2]) < y
        condition4 == AsU32(self.top_left[2]) > chunk_bottom_right_y
    IN  ~(condition1 \/ condition2 \/ condition3 \/ condition4)

\* contains with the bottom-right corner excluded.
contains_exclusive(self, x, y) ==
    /\ x >= AsU32(self.top_left[1])
    /\ x < AsU32(self.bottom_right[1])
    /\ y >= AsU32(self.top_left[2])
    /\ y < AsU32(self.bottom_right[2])

contains(self, x, y) ==
    /\ x >= AsU32(self.top_left[1])
    /\ x <= AsU32(self.bottom_right[1])
    /\ y >= AsU32(self.top_left[2])
    /\ y <= AsU32(self.bottom_right[2])

(***************************************************************************)
(* Images.                                                                 *)
(***************************************************************************)
Coords(w, h) == (0 .. w - 1) \X (0 .. h - 1)

dimensions(im) == <<im.width, im.height>>

get_pixel(im, x, y) == im.px[y + 1][x + 1]

\* The test of images.rs 87 with `==` in place of `!=`.
pixel_ne_inverted(p, q) == p = q

\* Rgba<u8> inequality (images.rs 87): any of the four channels differs.
pixel_ne(p, q) == p # q

\* The origins `(0..n).step_by(chunk_size)` yields.
step_by(n, step) == {k \in 0 .. n - 1 : k % step = 0}

(***************************************************************************)
(* compare_images_in_chunks (images.rs 22-106).                            *)
(***************************************************************************)
\* The loop over the ignore rectangles of one chunk (images.rs 41-52), from
\* index i on, with the flags as they stand: <<is_chunk_ignored, is_chunk_partial>>.
RECURSIVE chunk_flags(_, _, _, _, _)
chunk_flags(rects, i, x, y, partial) ==
    IF i > Len(rects) THEN <<FALSE, partial>>
    ELSE IF overlaps(rects[i], x, y, chunk_size)
         THEN IF contains(rects[i], x, y)
                 /\ contains(rects[i], x + chunk_size, y + chunk_size)
              THEN <<TRUE, partial>>                       \* break
              ELSE chunk_flags(rects, i + 1, x, y, TRUE)
         ELSE chunk_flags(rects, i + 1, x, y, partial)

\* pixel_skipped looking at the last rectangle of the list only.
pixel_skipped_last_rect(rects, partial, ax, ay) ==
    /\ partial
    /\ rects.is_some
    /\ Len(rects.val) >= 1
    /\ contains(rects.val[Len(rects.val)], ax, ay)

\* The pixel loop of one chunk (images.rs 62-96): whether a pixel that is
\* compared differs.  The loop stops at the first such pixel, so it finds
\* one exactly when one exists.
pixel_skipped(rects, partial, ax, ay) ==
    /\ partial
    /\ rects.is_some
    /\ \E i \in 1 .. Len(rects.val) : contains(rects.val[i], ax, ay)

\* chunks_differ comparing the colour channels only.
chunks_differ_no_alpha(a, b, rects, partial, x, y) ==
    \E dy \in 0 .. chunk_size - 1, dx \in 0 .. chunk_size - 1 :
        LET actual_x == x + dx
            actual_y == y + dy
        IN  /\ ~(actual_x >= a.width \/ actual_y >= a.height)
            /\ ~pixel_skipped(rects, partial, actual_x, actual_y)
            /\ SubSeq(get_pixel(a, actual_x, actual_y), 1, 3)
                 # SubSeq(get_pixel(b, actual_x, actual_y), 1, 3)

chunks_differ(a, b, rects, partial, x, y) ==
    \E dy \in 0 .. chunk_size - 1, dx \in 0 .. chunk_size - 1 :
        LET actual_x == x + dx
            actual_y == y + dy
        IN  /\ ~(actual_x >= a.width \/ actual_y >= a.height)
            /\ ~pixel_skipped(rects, partial, actual_x, actual_y)
            /\ pixel_ne(get_pixel(a, actual_x, actual_y),
                        get_pixel(b, actual_x, actual_y))

\* Whether the chunk at (x, y) is pushed onto differing_chunks.
chunk_reported(a, b, rects, x, y) ==
    LET flags == IF rects.is_some THEN chunk_flags(rects.val, 1, x, y, FALSE)
                 ELSE <<FALSE, FALSE>>
    IN  /\ ~flags[1]
        /\ chunks_differ(a, b, rects, flags[2], x, y)

\* scan with the two loops exchanged: columns outermost.
RECURSIVE scan_column_major(_, _, _, _, _)
scan_column_major(a, b, rects, x, y) ==
    IF x >= a.width THEN <<>>
    ELSE IF y >= a.height THEN scan_column_major(a, b, rects, x + chunk_size, 0)
    ELSE (IF chunk_reported(a, b, rects, x, y) THEN <<(<<x, y>>)>> ELSE <<>>)
         \o scan_column_major(a, b, rects, x, y + chunk_size)

\* The chunk origins in the order the two nested loops visit them: rows
\* (y) outermost, columns (x) within a row.
RECURSIVE scan(_, _, _, _, _)
scan(a, b, rects, x, y) ==
    IF y >= a.height THEN <<>>
    ELSE IF x >= a.width THEN scan(a, b, rects, 0, y + chunk_size)
    ELSE (IF chunk_reported(a, b, rects, x, y) THEN <<(<<x, y>>)>> ELSE <<>>)
         \o scan(a, b, rects, x + chunk_size, y)

compare_images_in_chunks(a, b, rects) == scan(a, b, rects, 0, 0)


(***************************************************************************)
(* Inputs of the comparison.                                               *)
(***************************************************************************)
White == <<255, 255, 255, 255>>
Black == <<0, 0, 0, 255>>

\* A page image with a checkerboard of black and white pixels.
BaseImage(w, h) ==
    [width |-> w, height |-> h,
     px |-> [y \in 1 .. h |-> [x \in 1 .. w |->
                IF (x + y) % 2 = 0 THEN White ELSE Black]]]

\* A pixel that differs from q: in the red channel in even columns, in the
\* alpha channel alone in odd columns.
Altered(q, x) ==
    IF x % 2 = 0 THEN [q EXCEPT ![1] = (q[1] + 100) % 256]
    ELSE [q EXCEPT ![4] = 0]

\* im with the pixels of D altered.
AlterImage(im, D) ==
    [im EXCEPT !.px = [y \in 1 .. im.height |-> [x \in 1 .. im.width |->
                          IF <<x - 1, y - 1>> \in D
                          THEN Altered(im.px[y][x], x - 1) ELSE im.px[y][x]]]]

\* The image sizes: whole chunks along both axes, and a size whose last
\* column and row of chunks are clipped.
ImageSizes ==
    { <<MaxWidth, MaxHeight>>, <<MaxWidth - 8, MaxHeight - 5>> }

\* Coordinates at and next to the chunk borders, inside and outside the image.
GridCoords == {-3, 0, 9, 10}
SampleCoords == {0, 5, 9, 10}
CornerCoords == {0, 10}

GridRects ==
    {Rect(PageAll, x1, y1, x2, y2) : x1 \in GridCoords, y1 \in GridCoords,
                                   x2 \in GridCoords, y2 \in GridCoords}

CuratedRects ==
    { Rect(PageAll, 0, 0, 9, 9),        \* the pixel bounds of the first chunk
      Rect(PageAll, 0, 0, 10, 10),      \* both corners of the first chunk
      Rect(PageAll, 5, 5, 15, 15),      \* partial overlap of four chunks
      Rect(PageAll, 10, 0, 12, 9),      \* touches the first chunk at x + 10
      Rect(PageAll, -3, -3, -1, -1),    \* wholly above and left of the image
      Rect(PageAll, 0, 10, 30, 30),     \* the rows from 10 on
      Rect(PageAll, 9, 9, 0, 0) }       \* corners exchanged

SamplePixels(w, h) == {p \in SampleCoords \X SampleCoords : p \in Coords(w, h)}
CornerPixels(w, h) == {p \in CornerCoords \X CornerCoords : p \in Coords(w, h)}

AtMostOne(S) == {{}} \cup {{p} : p \in S}
AtMostTwo(S) == AtMostOne(S) \cup {{p, q} : p \in S, q \in S}

RECURSIVE SeqsUpTo(_, _)
SeqsUpTo(S, n) ==
    IF n = 0 THEN {<<>>}
    ELSE LET shorter == SeqsUpTo(S, n - 1)
         IN  shorter \cup {Append(s, r) : s \in shorter, r \in S}

(***************************************************************************)
(* The comparison of one page pair: compare_images_in_chunks applied to    *)
(* two images of equal dimensions.                                         *)
(***************************************************************************)
CompareStart(sz, D, rs) ==
    /\ pc = "compare"
    /\ img1 = BaseImage(sz[1], sz[2])
    /\ img2 = AlterImage(BaseImage(sz[1], sz[2]), D)
    /\ ignore_rects = rs
    /\ differing_chunks = Unused
    /\ HighlightIdle /\ ComposeIdle /\ RectIdle /\ GeometryIdle /\ MainIdle

InitCompare ==
    \E sz \in ImageSizes :
        \* no rectangles: no pixel or any one pixel of the image differs
        \/ \E D \in AtMostOne(Coords(sz[1], sz[2])), rs \in {None, Some(<<>>)} :
               CompareStart(sz, D, rs)
        \* one rectangle with its corners on the grid
        \/ \E D \in AtMostOne(SamplePixels(sz[1], sz[2])), r \in GridRects :
               CompareStart(sz, D, Some(<<r>>))
        \* lists of curated rectangles
        \/ \E D \in AtMostTwo(CornerPixels(sz[1], sz[2])),
              rs \in SeqsUpTo(CuratedRects, MaxRects) :
               CompareStart(sz, D, Some(rs))

CompareImagesInChunks ==
    /\ pc = "compare"
    /\ differing_chunks' = compare_images_in_chunks(img1, img2, ignore_rects)
    /\ pc' = "compared"
    /\ UNCHANGED <<img1, img2, ignore_rects, highlightVars, composeVars, rectVars, geometryVars, mainVars>>

NextCompare == CompareImagesInChunks

SpecCompare == InitCompare /\ [][NextCompare]_vars

(***************************************************************************)
(* Vocabulary of the properties of the comparison.                         *)
(***************************************************************************)
Compared == pc = "compared"

\* The ignore rectangles given, as a sequence.
GivenRects == IF ignore_rects.is_some THEN ignore_rects.val ELSE <<>>

\* The pixels at which two images of equal dimensions differ.
DiffPixels(a, b) ==
    {p \in Coords(a.width, a.height) :
        get_pixel(a, p[1], p[2]) # get_pixel(b, p[1], p[2])}

\* The chunk origins of a w x h image and the pixels of a chunk's tile
\* that lie in the image.
ChunkOrigins(w, h) == step_by(w, chunk_size) \X step_by(h, chunk_size)
TilePixels(c, w, h) ==
    (c[1] .. Min(c[1] + chunk_size - 1, w - 1))
        \X (c[2] .. Min(c[2] + chunk_size - 1, h - 1))
ChunkOf(p) == <<chunk_size * (p[1] \div chunk_size), chunk_size * (p[2] \div chunk_size)>>

\* The pixel p lies in the rectangle r, corners inclusive, as geometry has it.
InRect(r, p) ==
    /\ r.top_left[1] <= p[1] /\ p[1] <= r.bottom_right[1]
    /\ r.top_left[2] <= p[2] /\ p[2] <= r.bottom_right[2]
InSomeRect(rs, p) == \E i \in 1 .. Len(rs) : InRect(rs[i], p)
TileInside(r, c, w, h) == \A p \in TilePixels(c, w, h) : InRect(r, p)
TileMeets(r, c, w, h) == \E p \in TilePixels(c, w, h) : InRect(r, p)

Reported == {differing_chunks[i] : i \in 1 .. Len(differing_chunks)}

\* (y, x) lexicographic order of chunk origins.
ScanBefore(c, d) == c[2] < d[2] \/ (c[2] = d[2] /\ c[1] < d[1])

\* C1: comparing two pixel-for-pixel identical images of equal dimensions
\* gives an empty list, whatever ignore rectangles are given (none, an empty
\* list or any list).
C1_IdenticalImagesNoChunks ==
    (Compared /\ img1 = img2) => differing_chunks = <<>>

C1_Witness ==
    /\ Compared /\ img1 = img2
    /\ Len(GivenRects) >= 1
    /\ differing_chunks = <<>>

\* C2: when the images differ at exactly one pixel (px, py) and no ignore
\* rectangles are given, the result is exactly the one chunk origin
\* (10 * floor(px / 10), 10 * floor(py / 10)).
C2_SinglePixelOneChunk ==
    (Compared /\ Len(GivenRects) = 0) =>
        LET differing == DiffPixels(img1, img2)
        IN  Cardinality(differing) = 1 =>
                \A p \in differing : differing_chunks = <<ChunkOf(p)>>

\* Two 20x20 images that differ only at (5, 5) give [(0, 0)].
C2_Witness ==
    /\ Compared /\ ~ignore_rects.is_some
    /\ dimensions(img1) = <<20, 20>>
    /\ DiffPixels(img1, img2) = {<<5, 5>>}
    /\ differing_chunks = <<(<<0, 0>>)>>

\* C3: no reported chunk has its whole tile (clipped to the image) inside one
\* ignore rectangle, corners inclusive; and two 20x20 images that differ only
\* at (5, 5), with the ignore rectangle (0,0)-(9,9), give an empty result.
C3_CoveredChunkNeverReported ==
    Compared =>
        /\ \A c \in Reported : \A i \in 1 .. Len(GivenRects) :
               ~TileInside(GivenRects[i], c, img1.width, img1.height)
        /\ ( /\ dimensions(img1) = <<20, 20>>
             /\ DiffPixels(img1, img2) = {<<5, 5>>}
             /\ GivenRects = <<Rect(PageAll, 0, 0, 9, 9)>> )
           => differing_chunks = <<>>

\* A differing pixel in a tile that one rectangle covers exactly.
C3_Witness ==
    /\ Compared
    /\ dimensions(img1) = <<20, 20>>
    /\ DiffPixels(img1, img2) = {<<9, 9>>}
    /\ GivenRects = <<Rect(PageAll, 0, 0, 9, 9)>>
    /\ differing_chunks = <<>>

\* C4: for a chunk that an ignore rectangle overlaps without containing it,
\* the chunk is reported if some pixel of it in the image differs and lies in
\* no ignore rectangle, and is not reported if every differing pixel of it
\* lies inside an ignore rectangle.
C4_PartialChunkSkipsOnlyCoveredPixels ==
    Compared =>
        \A c \in ChunkOrigins(img1.width, img1.height) :
            LET w == img1.width
                h == img1.height
                differing == DiffPixels(img1, img2) \cap TilePixels(c, w, h)
            IN  (\E i \in 1 .. Len(GivenRects) :
                    /\ TileMeets(GivenRects[i], c, w, h)
                    /\ ~TileInside(GivenRects[i], c, w, h))
                => /\ (\E p \in differing : ~InSomeRect(GivenRects, p))
                        => c \in Reported
                   /\ (\A p \in differing : InSomeRect(GivenRects, p))
                        => c \notin Reported

\* C5: the result is in scan order, strictly increasing in (y, x)
\* lexicographic order, so no origin appears twice.
C5_ScanOrder ==
    Compared =>
        \A i \in 1 .. Len(differing_chunks), j \in 1 .. Len(differing_chunks) :
            i < j => ScanBefore(differing_chunks[i], differing_chunks[j])

\* Two reported chunks of which the first is right of and above the second.
C5_Witness ==
    /\ Compared
    /\ differing_chunks = <<(<<10, 0>>), (<<0, 10>>)>>

(***************************************************************************)
(* highlight_chunks (images.rs 111-153).                                   *)
(***************************************************************************)
\* recolor with `<=` in place of `<` in the test for a dark pixel.
recolor_inclusive(pixel) ==
    IF pixel[1] <= 150 /\ pixel[2] <= 150 /\ pixel[3] <= 150
    THEN <<249, 133, 139, pixel[4]>>
    ELSE IF pixel[1] > 215 /\ pixel[2] < 215 /\ pixel[3] < 215
    THEN <<118, 17, 55, pixel[4]>>
    ELSE <<237, 51, 95, pixel[4]>>

\* The new value of one pixel (images.rs 125-146): channels 0..2 are
\* assigned, channel 3 is not.
recolor(pixel) ==
    IF pixel[1] < 150 /\ pixel[2] < 150 /\ pixel[3] < 150
    THEN <<249, 133, 139, pixel[4]>>
    ELSE IF pixel[1] > 215 /\ pixel[2] < 215 /\ pixel[3] < 215
    THEN <<118, 17, 55, pixel[4]>>
    ELSE <<237, 51, 95, pixel[4]>>

\* highlight_chunk with dx and dy running over 0..=10.
highlight_chunk_wide(im, x, y) ==
    [im EXCEPT !.px = [row \in 1 .. im.height |-> [col \in 1 .. im.width |->
        IF /\ x <= col - 1 /\ col - 1 <= x + 10
           /\ y <= row - 1 /\ row - 1 <= y + 10
        THEN recolor(im.px[row][col])
        ELSE im.px[row][col]]]]

\* One iteration of the loop over the chunks (images.rs 116-149): every
\* pixel (x + dx, y + dy), dx, dy in 0..10, that is in the image is
\* recoloured from its value in new_image; each is visited once.
highlight_chunk(im, x, y) ==
    [im EXCEPT !.px = [row \in 1 .. im.height |-> [col \in 1 .. im.width |->
        IF /\ x <= col - 1 /\ col - 1 < x + 10
           /\ y <= row - 1 /\ row - 1 < y + 10
        THEN recolor(im.px[row][col])
        ELSE im.px[row][col]]]]

\* The loop over the chunks from index i on, new_image being im.
RECURSIVE highlight_from(_, _, _)
highlight_from(im, cs, i) ==
    IF i > Len(cs) THEN im
    ELSE highlight_from(highlight_chunk(im, cs[i][1], cs[i][2]), cs, i + 1)

\* new_image starts as a clone of image.
highlight_chunks(im, cs) == highlight_from(im, cs, 1)

(***************************************************************************)
(* Inputs of the highlighting.                                             *)
(***************************************************************************)
\* Longest chunk list handed to highlight_chunks.
MaxChunkList == 2

\* Pixel values on both sides of the thresholds 150 and 215, and the three
\* highlight colours themselves.
Palette ==
    << <<0, 0, 0, 255>>,       <<149, 149, 149, 255>>, <<150, 149, 149, 7>>,
       <<149, 150, 149, 255>>, <<149, 149, 150, 0>>,   <<216, 214, 214, 255>>,
       <<215, 214, 214, 255>>, <<216, 215, 214, 128>>, <<216, 214, 215, 255>>,
       <<200, 100, 100, 255>>, <<255, 255, 255, 255>>, <<255, 0, 0, 0>>,
       <<249, 133, 139, 255>>, <<118, 17, 55, 255>>,   <<237, 51, 95, 255>> >>

\* An image whose pixels run through the palette, starting at entry k.
PaletteImage(w, h, k) ==
    [width |-> w, height |-> h,
     px |-> [y \in 1 .. h |-> [x \in 1 .. w |->
                Palette[((x + 3 * y + k) % Len(Palette)) + 1]]]]

\* Chunk origins as compare_images_in_chunks yields them (multiples of
\* chunk_size), in and beyond the image.
HighlightOrigins == {0, 10, 20} \X {0, 10}

HighlightSizes == { <<MaxWidth, MaxHeight - 5>>, <<MaxWidth - 8, MaxHeight - 9>> }

InitHighlight ==
    /\ pc = "highlight"
    /\ \E sz \in HighlightSizes, k \in 0 .. Len(Palette) - 1 :
           image = PaletteImage(sz[1], sz[2], k)
    /\ chunks \in SeqsUpTo(HighlightOrigins, MaxChunkList)
    /\ new_image = Unused
    /\ CompareIdle /\ ComposeIdle /\ RectIdle /\ GeometryIdle /\ MainIdle

HighlightChunks ==
    /\ pc = "highlight"
    /\ new_image' = highlight_chunks(image, chunks)
    /\ pc' = "highlighted"
    /\ UNCHANGED <<image, chunks, compareVars, composeVars, rectVars, geometryVars, mainVars>>

NextHighlight == HighlightChunks

SpecHighlight == InitHighlight /\ [][NextHighlight]_vars

Highlighted == pc = "highlighted"

\* The pixel p lies in the 10x10 tile of a listed chunk.
InListedChunk(cs, p) ==
    \E i \in 1 .. Len(cs) :
        /\ cs[i][1] <= p[1] /\ p[1] <= cs[i][1] + 9
        /\ cs[i][2] <= p[2] /\ p[2] <= cs[i][2] + 9

NoRepeats(cs) == \A i \in 1 .. Len(cs), j \in 1 .. Len(cs) : cs[i] = cs[j] => i = j

\* The three-way table on the channels of a pixel.
TableColour(r, g, b) ==
    IF r < 150 /\ g < 150 /\ b < 150 THEN <<249, 133, 139>>
    ELSE IF r > 215 /\ g < 215 /\ b < 215 THEN <<118, 17, 55>>
    ELSE <<237, 51, 95>>

\* C6: highlight_chunks leaves its input image unchanged, and returns an
\* image of the same dimensions in which every pixel that lies in none of the
\* listed chunks has all four channels equal to the input pixel.
C6_HighlightFrame ==
    /\ [][image' = image]_vars
    /\ [](Highlighted =>
            /\ dimensions(new_image) = dimensions(image)
            /\ \A p \in Coords(image.width, image.height) :
                   ~InListedChunk(chunks, p)
                       => get_pixel(new_image, p[1], p[2]) = get_pixel(image, p[1], p[2]))

\* A chunk is highlighted and a pixel outside it differs from its recolouring.
C6_Witness ==
    /\ Highlighted
    /\ chunks = <<(<<0, 0>>)>>
    /\ new_image # image
    /\ get_pixel(new_image, 10, 0) = get_pixel(image, 10, 0)
    /\ get_pixel(image, 10, 0) # recolor(get_pixel(image, 10, 0))

new_image_buffer(w, h) ==
    [width |-> w, height |-> h,
     px |-> [y \in 1 .. h |-> [x \in 1 .. w |-> <<0, 0, 0, 0>>]]]

\* image::imageops::replace(bottom, top, x, y): the pixels of top, its
\* origin at (x, y) of bottom, replace those of bottom; what falls outside
\* bottom is dropped.
replace(bottom, top, x, y) ==
    [bottom EXCEPT !.px = [row \in 1 .. bottom.height |-> [col \in 1 .. bottom.width |->
        IF /\ x <= col - 1 /\ col - 1 < x + top.width
           /\ y <= row - 1 /\ row - 1 < y + top.height
        THEN top.px[row - y][col - x]
        ELSE bottom.px[row][col]]]]

put_pixel(im, x, y, pixel) == [im EXCEPT !.px[y + 1][x + 1] = pixel]

\* draw_black_line stopping one row short.
RECURSIVE draw_black_line_short(_, _, _, _)
draw_black_line_short(im, x, y, total_height) ==
    IF y >= total_height - 1 THEN im
    ELSE draw_black_line_short(put_pixel(im, x, y, <<0, 0, 0, 255>>), x, y + 1, total_height)

\* The loop `for y in 0..total_height` of main.rs 724-726, from row y on.
RECURSIVE draw_black_line(_, _, _, _)
draw_black_line(im, x, y, total_height) ==
    IF y >= total_height THEN im
    ELSE draw_black_line(put_pixel(im, x, y, <<0, 0, 0, 255>>), x, y + 1, total_height)

\* combine_images with the first image copied to the right of the line as
\* well.
combine_images_first_twice(completed1, completed2) ==
    LET total_width == completed1.width + completed2.width + 1
        total_height == completed1.height
        blank == new_image_buffer(total_width, total_height)
        with_first == replace(blank, completed1, 0, 0)
        with_line == draw_black_line(with_first, completed1.width, 0, total_height)
    IN  replace(with_line, completed1, completed1.width + 1, 0)

combine_images(completed1, completed2) ==
    LET total_width == completed1.width + completed2.width + 1
        total_height == completed1.height
        blank == new_image_buffer(total_width, total_height)
        with_first == replace(blank, completed1, 0, 0)
        with_line == draw_black_line(with_first, completed1.width, 0, total_height)
    IN  replace(with_line, completed2, completed1.width + 1, 0)

\* Largest width and height of the images combined.
MaxSide == 3

\* The second image is as high as the first (what main guarantees), lower
\* or higher.
InitCompose ==
    /\ pc = "compose"
    /\ \E w1 \in 1 .. MaxSide, h1 \in 1 .. MaxSide, w2 \in 1 .. MaxSide, h2 \in 1 .. MaxSide,
          k1 \in {0, 5}, k2 \in {2, 11} :
           /\ doc1_page_completed_image = PaletteImage(w1, h1, k1)
           /\ doc2_page_completed_image = PaletteImage(w2, h2, k2)
    /\ combined_image = Unused
    /\ CompareIdle /\ HighlightIdle /\ RectIdle /\ GeometryIdle /\ MainIdle

CombineImages ==
    /\ pc = "compose"
    /\ combined_image' =
           combine_images(doc1_page_completed_image, doc2_page_completed_image)
    /\ pc' = "composed"
    /\ UNCHANGED <<doc1_page_completed_image, doc2_page_completed_image,
                   compareVars, highlightVars, rectVars, geometryVars, mainVars>>

NextCompose == CombineImages

SpecCompose == InitCompose /\ [][NextCompose]_vars

Composed == pc = "composed"

\* C8: the composite of A and B has width A.width + B.width + 1 and height
\* A.height, and every pixel of the column x = A.width, in every row, is
\* (0, 0, 0, 255).
C8_CompositeSeparator ==
    Composed =>
        /\ combined_image.width =
               doc1_page_completed_image.width + doc2_page_completed_image.width + 1
        /\ combined_image.height = doc1_page_completed_image.height
        /\ Len(combined_image.px) = combined_image.height
        /\ \A y \in 0 .. combined_image.height - 1 :
               /\ Len(combined_image.px[y + 1]) = combined_image.width
               /\ get_pixel(combined_image, doc1_page_completed_image.width, y)
                      = <<0, 0, 0, 255>>

\* Two images of equal height, more than one row high, are combined.
C8_Witness ==
    /\ Composed
    /\ doc1_page_completed_image.height = doc2_page_completed_image.height
    /\ doc1_page_completed_image.height >= 2
    /\ get_pixel(combined_image, doc1_page_completed_image.width,
                 combined_image.height - 1) = <<0, 0, 0, 255>>

(***************************************************************************)
(* Config::get_matching_rectangles (main.rs 117-177).                      *)
(*                                                                         *)
(* A configured coordinate, in inches, is a rational <<n, d>> with d > 0;  *)
(* a resolved coordinate is the rounded pixel value, an integer.           *)
(***************************************************************************)
Digits == <<"0", "1", "2", "3", "4", "5", "6", "7", "8", "9">>
IsDigit(c) == \E i \in 1 .. 10 : Digits[i] = c
DigitValue(c) == (CHOOSE i \in 1 .. 10 : Digits[i] = c) - 1

\* u16::to_string: the decimal digits, no sign, no leading zero.
RECURSIVE to_string(_)
to_string(n) ==
    IF n < 10 THEN <<Digits[n + 1]>>
    ELSE Append(to_string(n \div 10), Digits[(n % 10) + 1])

\* The value of a string of digits.
RECURSIVE digits_value(_)
digits_value(s) ==
    IF s = <<>> THEN 0
    ELSE 10 * digits_value(SubSeq(s, 1, Len(s) - 1)) + DigitValue(s[Len(s)])

\* str::parse::<i32>: an optional sign, then one or more digits and nothing
\* else.  (Strings of the model are too short to overflow an i32.)
parse_i32(s) ==
    LET signed == s # <<>> /\ s[1] \in {"+", "-"}
        body == IF signed THEN Tail(s) ELSE s
    IN  IF body = <<>> \/ \E i \in 1 .. Len(body) : ~IsDigit(body[i])
        THEN [is_ok |-> FALSE, val |-> 0]
        ELSE [is_ok |-> TRUE,
              val |-> IF signed /\ s[1] = "-" THEN 0 - digits_value(body)
                      ELSE digits_value(body)]

\* Rust's `%` on i32: the remainder has the sign of the dividend.
rust_rem(a, b) == IF a >= 0 THEN a % b ELSE 0 - ((0 - a) % b)

\* The match of main.rs 121-142 with the parities of "even" and "odd" exchanged.
selector_matches_swapped(rect_page, page_str) ==
    IF rect_page = PageAll THEN TRUE
    ELSE IF rect_page = PageEven
         THEN LET r == parse_i32(page_str) IN r.is_ok /\ rust_rem(r.val, 2) = 1
    ELSE IF rect_page = PageOdd
         THEN LET r == parse_i32(page_str) IN r.is_ok /\ rust_rem(r.val, 2) = 0
    ELSE page_str = rect_page

\* The match of main.rs 121-142 with page numbers compared by value.
selector_matches_by_value(rect_page, page_str) ==
    IF rect_page = PageAll THEN TRUE
    ELSE IF rect_page = PageEven
         THEN LET r == parse_i32(page_str) IN r.is_ok /\ rust_rem(r.val, 2) = 0
    ELSE IF rect_page = PageOdd
         THEN LET r == parse_i32(page_str) IN r.is_ok /\ rust_rem(r.val, 2) = 1
    ELSE LET r == parse_i32(page_str)
             q == parse_i32(rect_page)
         IN  page_str = rect_page \/ (r.is_ok /\ q.is_ok /\ r.val = q.val)

\* The match of main.rs 121-142: whether the rectangle is pushed.
selector_matches(rect_page, page_str) ==
    IF rect_page = PageAll THEN TRUE
    ELSE IF rect_page = PageEven
         THEN LET r == parse_i32(page_str) IN r.is_ok /\ rust_rem(r.val, 2) = 0
    ELSE IF rect_page = PageOdd
         THEN LET r == parse_i32(page_str) IN r.is_ok /\ rust_rem(r.val, 2) = 1
    ELSE page_str = rect_page

\* Rounding of n / d, d > 0, with halves going up.
round_half_up(n, d) == (2 * n + d) \div (2 * d)

\* f64::round of the rational n / d, d > 0: halves go away from zero.
round_ratio(n, d) ==
    IF n >= 0 THEN (2 * n + d) \div (2 * d)
    ELSE 0 - ((2 * (0 - n) + d) \div (2 * d))

\* inches * 72 * pixels_per_point, rounded, pixels_per_point being
\* 2000 / height_in_points (main.rs 149, 158-170).
to_pixels(inches, height) == round_ratio(inches[1] * 72 * 2000, inches[2] * height)

convert_rect(rect, height) ==
    [page |-> rect.page,
     top_left |-> <<to_pixels(rect.top_left[1], height), to_pixels(rect.top_left[2], height)>>,
     bottom_right |-> <<to_pixels(rect.bottom_right[1], height),
                        to_pixels(rect.bottom_right[2], height)>>]

\* The loop of main.rs 120-143, from index i on: the clones pushed, in order.
RECURSIVE select_rects(_, _, _)
select_rects(rects, page_str, i) ==
    IF i > Len(rects) THEN <<>>
    ELSE (IF selector_matches(rects[i].page, page_str) THEN <<rects[i]>> ELSE <<>>)
         \o select_rects(rects, page_str, i + 1)

get_matching_rectangles(rects, page_str, height) ==
    LET selected == select_rects(rects, page_str, 1)
    IN  [i \in 1 .. Len(selected) |-> convert_rect(selected[i], height)]

(***************************************************************************)
(* Inputs of the rectangle selection.                                      *)
(***************************************************************************)
\* Largest page number a page string is made of.
MaxPageNumber == 4
\* Longest configured rectangle list.
MaxConfigRects == 2

\* Page selectors: the three words, page numbers, and strings that are
\* nearly one of them.
Selectors ==
    { PageAll, PageEven, PageOdd, <<"1">>, <<"3">>, <<"0", "3">>, <<"3", " ">>,
      <<"E", "v", "e", "n">> }

\* Page strings: those main makes of a page number, and others.
NumberPageStrings == {to_string(n) : n \in 1 .. MaxPageNumber}
OtherPageStrings == { <<"x">>, <<>>, <<"-", "3">>, <<"+", "2">>, <<"0", "3">> }

\* Configured corners in inches (rationals), one rectangle per selector.
ConfigCorners ==
    { << <<0, 1>>, <<0, 1>>, <<1, 1>>, <<1, 2>> >>,
      << <<-1, 4>>, <<1, 4>>, <<17, 2>>, <<11, 1>> >> }

ConfigRects ==
    { Rect(sel, c[1], c[2], c[3], c[4]) : sel \in Selectors, c \in ConfigCorners }

PageHeights == {792, 1600, 2000}

InitRects ==
    /\ pc = "select"
    /\ ignored_rectangles \in SeqsUpTo(ConfigRects, MaxConfigRects)
    /\ page \in NumberPageStrings \cup OtherPageStrings
    /\ height_in_points \in PageHeights
    /\ matching_rects = Unused
    /\ CompareIdle /\ HighlightIdle /\ ComposeIdle /\ GeometryIdle /\ MainIdle

GetMatchingRectangles ==
    /\ pc = "select"
    /\ matching_rects' = get_matching_rectangles(ignored_rectangles, page, height_in_points)
    /\ pc' = "selected"
    /\ UNCHANGED <<ignored_rectangles, page, height_in_points,
                   compareVars, highlightVars, composeVars, geometryVars, mainVars>>

NextRects == GetMatchingRectangles

SpecRects == InitRects /\ [][NextRects]_vars

Selected == pc = "selected"

\* The selectors of a rectangle list, in order.
PagesOf(rects) == [i \in 1 .. Len(rects) |-> rects[i].page]

\* What the selection is to be for the page numbered n: "all" always, "even"
\* on even n, "odd" on odd n, a page number on that page.
WantedOnPage(sel, n) ==
    \/ sel = PageAll
    \/ sel = PageEven /\ n % 2 = 0
    \/ sel = PageOdd /\ n % 2 = 1
    \/ sel \notin {PageAll, PageEven, PageOdd} /\ sel = to_string(n)

RECURSIVE WantedSelectors(_, _)
WantedSelectors(rects, n) ==
    IF rects = <<>> THEN <<>>
    ELSE (IF WantedOnPage(Head(rects).page, n) THEN <<Head(rects).page>> ELSE <<>>)
         \o WantedSelectors(Tail(rects), n)

\* C9: for the page string of a 1-based page number n, the rectangles
\* returned are, in order, those whose selector is "all", or "even" with n
\* even, or "odd" with n odd (or the number itself); so a configuration
\* holding only an "even" rectangle gives an empty list for page 3.
C9_SelectByPage ==
    Selected =>
        \A n \in 1 .. MaxPageNumber :
            page = to_string(n) =>
                /\ PagesOf(matching_rects) = WantedSelectors(ignored_rectangles, n)
                /\ (\A i \in 1 .. Len(ignored_rectangles) :
                        ignored_rectangles[i].page = PageEven) /\ n = 3
                   => matching_rects = <<>>

\* Only an "even" rectangle is configured and page 3 is resolved.
C9_Witness ==
    /\ Selected
    /\ Len(ignored_rectangles) = 1
    /\ ignored_rectangles[1].page = PageEven
    /\ page = <<"3">>
    /\ matching_rects = <<>>

(***************************************************************************)
(* draw_ignored_rectangles (images.rs 157-220).                            *)
(***************************************************************************)
\* set_ignored_pixel_border_color (images.rs 201-220) on a pixel of the
\* image: channels 0..2 are assigned, channel 3 is not.
border_color(pixel, x, y) ==
    IF (x + y) % 2 = 0 THEN <<255, 0, 0, pixel[4]>> ELSE <<0, 0, 0, pixel[4]>>

\* i32::MAX.  `as i32` saturates, so a rounded coordinate of this value or
\* more is this value in the loops of images.rs 171-191.
I32Max == 2147483647
I32Min == 0 - I32Max - 1

\* images.rs 183: whether `top_left[1].round() as i32 + 1` overflows.
start_overflows(rect) == rect.top_left[2] = I32Max

\* images.rs 183: the start of the vertical range, the addition wrapping
\* where it overflows.
vertical_start(rect) ==
    IF start_overflows(rect) THEN I32Min ELSE rect.top_left[2] + 1

\* Whether the loops of images.rs 171-191 call set_ignored_pixel_border_color
\* for the pixel (x, y) of a w x h image.  The ranges exclude their upper end.
border_drawn(rect, x, y, w, h) ==
    LET x1 == rect.top_left[1]
        y1 == rect.top_left[2]
        x2 == rect.bottom_right[1]
        y2 == rect.bottom_right[2]
    IN  \/ /\ x1 <= x /\ x < x2
           /\ x >= 0 /\ x < w
           /\ y = y1 \/ y = y2
        \/ /\ vertical_start(rect) <= y /\ y < y2
           /\ y >= 0 /\ y < h
           /\ x = x1 \/ x = x2

\* The pixels assigned get a colour that depends on their place alone, so
\* the order of the assignments does not show in the result.
draw_ignored_rectangles(im, rects) ==
    IF ~rects.is_some THEN im
    ELSE [im EXCEPT !.px = [row \in 1 .. im.height |-> [col \in 1 .. im.width |->
            IF \E i \in 1 .. Len(rects.val) :
                   border_drawn(rects.val[i], col - 1, row - 1, im.width, im.height)
            THEN border_color(im.px[row][col], col - 1, row - 1)
            ELSE im.px[row][col]]]]

(***************************************************************************)
(* main (main.rs 190-952): the operators of the page loop.                 *)
(***************************************************************************)
Last(s) == s[Len(s)]

\* current_page_rectangles_to_ignore and the Option handed to the image
\* functions (main.rs 565-571, 657-662, 686-691): Some only with a config
\* that has rectangles for the page.
rects_argument(config, page_val, height) ==
    IF ~config.is_some THEN None
    ELSE LET current == get_matching_rectangles(config.val, to_string(page_val), height)
         IN  IF current # <<>> THEN Some(current) ELSE None

\* main.rs 565-624: the three call sites of compare_images_in_chunks.
compare_page(image1, image2, config, page_val, height) ==
    compare_images_in_chunks(image1, image2, rects_argument(config, page_val, height))

\* main.rs 650-712: docN_page_completed_image.
completed_image(im, found, diffs, config, page_val, height) ==
    LET highlighted == IF found THEN highlight_chunks(im, diffs) ELSE im
    IN  draw_ignored_rectangles(highlighted, rects_argument(config, page_val, height))

page_wanted_always(c, found) == c.output

\* main.rs 635-638: whether the page gets an output page.
page_wanted(c, found) == c.output /\ (found \/ ~c.justdiff)

sizes_differ_in_width(doc1page, doc2page) == doc1page.width # doc2page.width

\* main.rs 536-537.
sizes_differ(doc1page, doc2page) ==
    doc1page.width # doc2page.width \/ doc1page.height # doc2page.height

stop_break_never(stop, found) == FALSE

\* main.rs 795.
stop_break(stop, found) == stop /\ found

\* main.rs 806-809.
pages_break(pages, idx) == pages.is_some /\ pages.val = idx + 1

\* main.rs 825-828.
maxpages_break(maxpages, idx) == maxpages.is_some /\ maxpages.val = idx + 1

\* verdict without the page counts.
verdict_document_only(in_document, in_number_of_pages) ==
    IF in_document
    THEN "Differences were found." ELSE "The PDF documents match."

\* main.rs 866-874: the line printed.
verdict(in_document, in_number_of_pages) ==
    IF in_document \/ in_number_of_pages
    THEN "Differences were found." ELSE "The PDF documents match."

\* main.rs 891-899: match_result.
result_text(in_document, in_number_of_pages) ==
    IF in_document \/ in_number_of_pages
    THEN "Differences were found" ELSE "Documents match"

(***************************************************************************)
(* Inputs of main: command lines, documents, config files.                 *)
(***************************************************************************)
\* Longest document.
MaxPages == 2
\* Width and height of a rendered page.
PageSide == 2

\* Pages in points with the image they render to.
PageA == [width |-> 612, height |-> 792, image |-> BaseImage(PageSide, PageSide)]
\* PageA with the pixel (0, 0) altered.
PageB == [PageA EXCEPT !.image = AlterImage(BaseImage(PageSide, PageSide), {<<0, 0>>})]
\* A page of another size.
PageC == [width |-> 612, height |-> 1008, image |-> BaseImage(PageSide, PageSide + 1)]

Repeat(v, n) == [i \in 1 .. n |-> v]

\* Document pairs: the first made of PageA, the second of as many pages of
\* any kind, or of one page more or less.
DocPairs ==
    { <<Repeat(PageA, Len(d)), d>> : d \in SeqsUpTo({PageA, PageB, PageC}, MaxPages) }
    \cup { <<Repeat(PageA, n), Repeat(PageA, n + 1)>> : n \in 0 .. MaxPages - 1 }
    \cup { <<Repeat(PageA, n + 1), Repeat(PageA, n)>> : n \in 0 .. MaxPages - 1 }

\* A config file ignoring the pixel (0, 0) of the even pages.
ConfigFile == << Rect(PageEven, <<0, 1>>, <<0, 1>>, <<0, 1>>, <<0, 1>>) >>

\* cli.output, cli.result: whether the option is given; cli.config: the
\* content of the file named.
CliSet ==
    [stop : BOOLEAN, justdiff : BOOLEAN,
     pages : {None, Some(1)},
     maxpages : {None, Some(0), Some(1)},
     output : BOOLEAN, result : BOOLEAN,
     config : {None, Some(ConfigFile)},
     debug : BOOLEAN, license : BOOLEAN]

\* What startup can meet (main.rs 266-352), and how each ends the process.
StartupOutcomes(c) ==
    {"loaded", "pdfium_missing", "load_error"}
    \cup (IF c.output THEN {"no_output_folder"} ELSE {})
    \cup (IF c.result THEN {"no_result_folder"} ELSE {})
    \cup (IF c.config.is_some THEN {"no_config_file", "bad_config_file"} ELSE {})

StartupExit(outcome) ==
    CASE outcome \in {"no_output_folder", "no_result_folder", "no_config_file"} -> "exit1"
      [] outcome \in {"bad_config_file", "pdfium_missing"} -> "panic"
      [] outcome = "load_error" -> "err"

\* The stored license file (main.rs 386-399).
LicenseFiles == {"absent", "unreadable", "undecryptable", "bad_json", "no_key", "key"}
\* LicenseActivationResult (main.rs 958-963).
ActivationResults == {"Success", "Error", "ValidationFailed", "ActivationFailed"}

(***************************************************************************)
(* main as a state machine.  pdf_document_1 and pdf_document_2 stand for   *)
(* the files named on the command line from the start.                     *)
(***************************************************************************)
imageVars == <<compareVars, highlightVars, composeVars, rectVars, geometryVars>>
inputVars == <<cli, pdf_document_1, pdf_document_2>>
loopVars ==
    <<index, differences_found_in_document, differences_found_in_page,
      differences_in_number_of_pages, page_differences_vector, output_pdf,
      rendered, compared, page_errors>>
reportVars == <<output_file, console, result_file>>

Init ==
    /\ pc = "start"
    /\ cli \in CliSet
    /\ \E docs \in DocPairs : pdf_document_1 = docs[1] /\ pdf_document_2 = docs[2]
    /\ config_json = None
    /\ final_license_key = None
    /\ index = 0
    /\ differences_found_in_document = FALSE
    /\ differences_found_in_page = FALSE
    /\ differences_in_number_of_pages = FALSE
    /\ page_differences_vector = <<>>
    /\ output_pdf = <<>>
    /\ output_file = None
    /\ console = <<>>
    /\ result_file = None
    /\ exit_code = "running"
    /\ licensing = <<>>
    /\ rendered = <<>>
    /\ compared = <<>>
    /\ page_errors = {}
    /\ CompareIdle /\ HighlightIdle /\ ComposeIdle /\ RectIdle /\ GeometryIdle

\* main.rs 201-352: the checks of the command line, the config file, pdfium
\* and the two documents.
Startup ==
    /\ pc = "start"
    /\ \E outcome \in StartupOutcomes(cli) :
          IF outcome = "loaded"
          THEN /\ config_json' = cli.config
               /\ pc' = "license"
               /\ UNCHANGED exit_code
          ELSE /\ pc' = "exited"
               /\ exit_code' = StartupExit(outcome)
               /\ UNCHANGED config_json
    /\ UNCHANGED <<inputVars, final_license_key, licensing, loopVars, reportVars, imageVars>>

\* main.rs 385-473: the stored key is activated, or the key is asked for.
LicenseLogic ==
    /\ pc = "license"
    /\ \E file \in LicenseFiles, activation \in ActivationResults :
          IF file = "absent" \/ cli.license \/ file \in {"bad_json", "no_key"}
          THEN /\ pc' = "prompt"
               /\ UNCHANGED <<final_license_key, licensing, exit_code>>
          ELSE IF file = "unreadable"
          THEN /\ pc' = "exited"
               /\ exit_code' = "exit1"
               /\ licensing' = IF final_license_key.is_some
                               THEN Append(licensing, "release") ELSE licensing
               /\ UNCHANGED final_license_key
          ELSE IF file = "undecryptable"
          THEN /\ pc' = "exited"
               /\ exit_code' = "panic"
               /\ UNCHANGED <<final_license_key, licensing>>
          ELSE IF activation = "Success"
          THEN /\ final_license_key' = Some("stored key")
               /\ licensing' = Append(licensing, "activate")
               /\ pc' = "count"
               /\ UNCHANGED exit_code
          ELSE /\ pc' = "exited"
               /\ exit_code' = "exit1"
               /\ UNCHANGED <<final_license_key, licensing>>
    /\ UNCHANGED <<inputVars, config_json, loopVars, reportVars, imageVars>>

\* get_and_store_license_key, main.rs 1078-1112: one turn of the prompt loop.
PromptLicenseKey ==
    /\ pc = "prompt"
    /\ \E line \in {"unreadable", "empty", "key"}, activation \in ActivationResults :
          IF line = "unreadable"
          THEN /\ pc' = "exited"
               /\ exit_code' = "panic"
               /\ UNCHANGED licensing
          ELSE IF line = "empty"
          THEN UNCHANGED <<pc, exit_code, licensing>>
          ELSE IF activation = "Success"
          THEN /\ pc' = "store"
               /\ licensing' = Append(licensing, "activate")
               /\ UNCHANGED exit_code
          ELSE /\ pc' = "exited"
               /\ exit_code' = "exit1"
               /\ UNCHANGED licensing
    /\ UNCHANGED <<inputVars, config_json, final_license_key, loopVars, reportVars, imageVars>>

\* StoreLicenseKey returning to main, which goes on to the comparison.
StoreLicenseKey_returns ==
    /\ pc = "store"
    /\ licensing' = Append(licensing, "release")
    /\ pc' = "count"
    /\ UNCHANGED <<inputVars, config_json, final_license_key, exit_code, loopVars,
                   reportVars, imageVars>>

\* get_and_store_license_key, main.rs 1119-1178: the key is released and
\* stored, and the process exits.
StoreLicenseKey ==
    /\ pc = "store"
    /\ licensing' = Append(licensing, "release")
    /\ pc' = "exited"
    /\ \E written \in BOOLEAN : exit_code' = IF written THEN "exit0" ELSE "panic"
    /\ UNCHANGED <<inputVars, config_json, final_license_key, loopVars, reportVars, imageVars>>

\* CountPages entering the loop over the pages of the first document
\* whatever the page counts are.
CountPages_loop_always ==
    /\ pc = "count"
    /\ differences_in_number_of_pages' = (Len(pdf_document_1) # Len(pdf_document_2))
    /\ output_pdf' = <<>>
    /\ index' = 0
    /\ pc' = IF Len(pdf_document_1) > 0 /\ Len(pdf_document_2) > 0
             THEN "page" ELSE "save"
    /\ UNCHANGED <<inputVars, config_json, final_license_key, licensing, exit_code,
                   differences_found_in_document, differences_found_in_page,
                   page_differences_vector, rendered, compared, page_errors,
                   reportVars, imageVars>>

\* main.rs 480-508: the page counts, the empty output document, the entry
\* of the loop.
CountPages ==
    /\ pc = "count"
    /\ differences_in_number_of_pages' = (Len(pdf_document_1) # Len(pdf_document_2))
    /\ output_pdf' = <<>>
    /\ index' = 0
    /\ pc' = IF Len(pdf_document_1) = Len(pdf_document_2) /\ Len(pdf_document_1) > 0
             THEN "page" ELSE "save"
    /\ UNCHANGED <<inputVars, config_json, final_license_key, licensing, exit_code,
                   differences_found_in_document, differences_found_in_page,
                   page_differences_vector, rendered, compared, page_errors,
                   reportVars, imageVars>>

\* main.rs 508-624: the pages are fetched, their sizes checked, both are
\* rendered and compared.
ComparePage ==
    /\ pc = "page"
    /\ LET doc1page == pdf_document_1[index + 1]
           doc2page == pdf_document_2[index + 1]
           page_val == index + 1
           differ == compare_page(doc1page.image, doc2page.image, config_json,
                                  page_val, doc1page.height)
       IN  \E outcome \in {"compared", "get_error", "render_error"} :
              IF outcome = "get_error"
              THEN /\ pc' = "exited"
                   /\ exit_code' = "err"
                   /\ differences_found_in_page' = FALSE
                   /\ UNCHANGED <<differences_found_in_document, page_differences_vector,
                                  rendered, compared>>
              ELSE IF sizes_differ(doc1page, doc2page)
              THEN /\ differences_found_in_document' = TRUE
                   /\ differences_found_in_page' = FALSE
                   /\ pc' = "save"
                   /\ UNCHANGED <<exit_code, page_differences_vector, rendered, compared>>
              ELSE IF outcome = "render_error"
              THEN /\ pc' = "exited"
                   /\ exit_code' = "err"
                   /\ differences_found_in_page' = FALSE
                   /\ rendered' = Append(rendered, page_val)
                   /\ UNCHANGED <<differences_found_in_document, page_differences_vector,
                                  compared>>
              ELSE /\ rendered' = Append(rendered, page_val)
                   /\ compared' = Append(compared, <<page_val, differ>>)
                   /\ page_differences_vector' = differ
                   /\ differences_found_in_page' = (differ # <<>>)
                   /\ differences_found_in_document' =
                          (differences_found_in_document \/ differ # <<>>)
                   /\ pc' = "output"
                   /\ UNCHANGED exit_code
    /\ UNCHANGED <<inputVars, config_json, final_license_key, licensing, index,
                   differences_in_number_of_pages, output_pdf, page_errors,
                   reportVars, imageVars>>

\* main.rs 635-790: the page of the output document.
OutputPage ==
    /\ pc = "output"
    /\ LET doc1page == pdf_document_1[index + 1]
           doc2page == pdf_document_2[index + 1]
           page_val == index + 1
           completed1 == completed_image(doc1page.image, differences_found_in_page,
                             page_differences_vector, config_json, page_val, doc1page.height)
           completed2 == completed_image(doc2page.image, differences_found_in_page,
                             page_differences_vector, config_json, page_val, doc1page.height)
       IN  IF page_wanted(cli, differences_found_in_page)
           THEN \E outcome \in {"added", "no_page", "no_image_object"} :
                   IF outcome = "added"
                   THEN /\ output_pdf' = Append(output_pdf,
                               [page |-> page_val,
                                image |-> Some(combine_images(completed1, completed2))])
                        /\ pc' = "checks"
                        /\ UNCHANGED <<page_errors, exit_code>>
                   ELSE IF outcome = "no_page"
                   THEN /\ page_errors' = page_errors \cup {page_val}
                        /\ pc' = "checks"
                        /\ UNCHANGED <<output_pdf, exit_code>>
                   ELSE /\ output_pdf' = Append(output_pdf,
                               [page |-> page_val, image |-> None])
                        /\ pc' = "exited"
                        /\ exit_code' = "err"
                        /\ UNCHANGED page_errors
           ELSE /\ pc' = "checks"
                /\ UNCHANGED <<output_pdf, page_errors, exit_code>>
    /\ UNCHANGED <<inputVars, config_json, final_license_key, licensing, index,
                   differences_found_in_document, differences_found_in_page,
                   differences_in_number_of_pages, page_differences_vector,
                   rendered, compared, reportVars, imageVars>>

\* main.rs 795-842: the three breaks, else the next page or the end of the
\* range.
LoopChecks ==
    /\ pc = "checks"
    /\ IF \/ stop_break(cli.stop, differences_found_in_document)
          \/ pages_break(cli.pages, index)
          \/ maxpages_break(cli.maxpages, index)
          \/ index + 1 >= Len(pdf_document_1)
       THEN pc' = "save" /\ UNCHANGED index
       ELSE pc' = "page" /\ index' = index + 1
    /\ UNCHANGED <<inputVars, config_json, final_license_key, licensing, exit_code,
                   differences_found_in_document, differences_found_in_page,
                   differences_in_number_of_pages, page_differences_vector, output_pdf,
                   rendered, compared, page_errors, reportVars, imageVars>>

\* main.rs 849-863: the output document is written when it has a page.
SaveOutput ==
    /\ pc = "save"
    /\ IF cli.output /\ output_pdf # <<>>
       THEN \E saved \in BOOLEAN :
               IF saved
               THEN output_file' = Some(output_pdf) /\ pc' = "verdict"
                    /\ UNCHANGED exit_code
               ELSE pc' = "exited" /\ exit_code' = "err" /\ UNCHANGED output_file
       ELSE pc' = "verdict" /\ UNCHANGED <<output_file, exit_code>>
    /\ UNCHANGED <<inputVars, config_json, final_license_key, licensing, loopVars,
                   console, result_file, imageVars>>

\* main.rs 866-874.
PrintVerdict ==
    /\ pc = "verdict"
    /\ console' = Append(console, verdict(differences_found_in_document,
                                          differences_in_number_of_pages))
    /\ pc' = "temp"
    /\ UNCHANGED <<inputVars, config_json, final_license_key, licensing, exit_code,
                   loopVars, output_file, result_file, imageVars>>

\* main.rs 878-882: the temp folder is removed unless debugging.
RemoveTempDir ==
    /\ pc = "temp"
    /\ IF ~cli.debug
       THEN \E removed \in BOOLEAN :
               IF removed THEN pc' = "result" /\ UNCHANGED exit_code
               ELSE pc' = "exited" /\ exit_code' = "err"
       ELSE pc' = "result" /\ UNCHANGED exit_code
    /\ UNCHANGED <<inputVars, config_json, final_license_key, licensing, loopVars,
                   reportVars, imageVars>>

\* main.rs 886-925: the result file.
WriteResultFile ==
    /\ pc = "result"
    /\ IF cli.result
       THEN \E outcome \in {"written", "not_created", "not_written"} :
               IF outcome = "not_created"
               THEN pc' = "exited" /\ exit_code' = "err" /\ UNCHANGED result_file
               ELSE /\ result_file' =
                          IF outcome = "written"
                          THEN Some(result_text(differences_found_in_document,
                                                differences_in_number_of_pages))
                          ELSE Some("")
                    /\ pc' = "release"
                    /\ UNCHANGED exit_code
       ELSE pc' = "release" /\ UNCHANGED <<result_file, exit_code>>
    /\ UNCHANGED <<inputVars, config_json, final_license_key, licensing, loopVars,
                   output_file, console, imageVars>>

\* main.rs 928-950: the license is released and main returns Ok.
ReleaseLicense ==
    /\ pc = "release"
    /\ licensing' = IF final_license_key.is_some
                    THEN Append(licensing, "release") ELSE licensing
    /\ pc' = "exited"
    /\ exit_code' = "ok"
    /\ UNCHANGED <<inputVars, config_json, final_license_key, loopVars, reportVars,
                   imageVars>>

Next ==
    \/ Startup
    \/ LicenseLogic
    \/ PromptLicenseKey
    \/ StoreLicenseKey
    \/ CountPages
    \/ ComparePage
    \/ OutputPage
    \/ LoopChecks
    \/ SaveOutput
    \/ PrintVerdict
    \/ RemoveTempDir
    \/ WriteResultFile
    \/ ReleaseLicense

Spec == Init /\ [][Next]_vars

(***************************************************************************)
(* The page loop under the stop flag.                                      *)
(***************************************************************************)
\* The pages compared so far that had differences.
DifferingPages == {compared[k][1] : k \in {j \in 1 .. Len(compared) : compared[j][2] # <<>>}}

\* C10: with the stop flag set, the loop ends after the first page with
\* differences: no page is compared or rendered after a page that compared
\* with differences, the loop is never entered again once differences were
\* found, and in a run that was not aborted that page has its output page,
\* as the last one of the output document, when output is requested and the
\* page could be created.
C10_StopAfterFirstDifference ==
    cli.stop =>
        /\ \A k \in 1 .. Len(compared) - 1 : compared[k][2] = <<>>
        /\ \A p \in DifferingPages : \A k \in 1 .. Len(rendered) : rendered[k] <= p
        /\ ~(pc = "page" /\ differences_found_in_document)
        /\ \A p \in DifferingPages :
              (cli.output /\ pc # "output" /\ exit_code # "err" /\ p \notin page_errors)
              => /\ output_pdf # <<>>
                 /\ Last(output_pdf).page = p
                 /\ Last(output_pdf).image.is_some

\* A finished run with the stop flag and output requested: the first of two
\* pages differs, it alone was rendered and compared, and it is in the
\* output document although the second page differs as well.
C10_Witness ==
    /\ cli.stop /\ cli.output /\ ~cli.pages.is_some /\ ~cli.maxpages.is_some
    /\ pc = "exited" /\ exit_code = "ok"
    /\ Len(pdf_document_1) = 2 /\ Len(pdf_document_2) = 2
    /\ pdf_document_2[2] = PageB /\ ~config_json.is_some
    /\ Len(compared) = 1 /\ compared[1][1] = 1 /\ compared[1][2] # <<>>
    /\ rendered = <<1>>
    /\ Len(output_pdf) = 1 /\ output_pdf[1].page = 1
    /\ output_file = Some(output_pdf)

(***************************************************************************)
(* The page loop under the pages and maxpages options.                     *)
(***************************************************************************)
\* The page numbers compared so far, in order.
ComparedPages == [k \in 1 .. Len(compared) |-> compared[k][1]]

\* C11: with the pages option N, no page after page N is compared when a
\* difference was found in pages 1..N; and when the first N pages compared
\* without a difference and the documents have more pages, the loop is not
\* left after page N (nothing else ending it).
C11_PagesOption ==
    cli.pages.is_some =>
        LET N == cli.pages.val
        IN  /\ (\E p \in DifferingPages : p <= N)
                   => \A k \in 1 .. Len(compared) : compared[k][1] <= N
            /\ ~ /\ pc = "save"
                 /\ ~differences_in_number_of_pages
                 /\ ~differences_found_in_document
                 /\ Len(compared) = N
                 /\ N < Len(pdf_document_1)
                 /\ ~maxpages_break(cli.maxpages, index)

\* C12: with the maxpages option N, at most N pages are compared.
C12_MaxPagesOption ==
    cli.maxpages.is_some => Len(compared) <= cli.maxpages.val

(***************************************************************************)
(* The pages of the output document.                                       *)
(***************************************************************************)
\* The comparisons whose page has been through the output block.
Processed ==
    IF pc = "output" THEN SubSeq(compared, 1, Len(compared) - 1) ELSE compared

\* The page numbers of the output document, in order.
OutputPages == [k \in 1 .. Len(output_pdf) |-> output_pdf[k].page]

\* C13: with output requested, the output document holds one page for each
\* compared page, in document order; under justdiff only for the compared
\* pages whose difference list is not empty.  A page whose creation failed
\* in the PDF library is reported on the console and has no output page.
C13_JustDiffPages ==
    cli.output =>
        LET wanted(entry) ==
                /\ cli.justdiff => entry[2] # <<>>
                /\ entry[1] \notin page_errors
            selected == SelectSeq(Processed, wanted)
        IN  OutputPages = [k \in 1 .. Len(selected) |-> selected[k][1]]

\* A finished run with output and justdiff: page 1 compared without
\* differences, page 2 with, and the output document holds page 2 alone.
C13_Witness ==
    /\ cli.output /\ cli.justdiff
    /\ pc = "exited" /\ exit_code = "ok"
    /\ Len(compared) = 2
    /\ compared[1][2] = <<>> /\ compared[2][2] # <<>>
    /\ OutputPages = <<2>>
    /\ output_file = Some(output_pdf)

(***************************************************************************)
(* Pages of different sizes.                                               *)
(***************************************************************************)
\* The page numbers at which the two documents have pages of different
\* width or height.
MismatchedPages ==
    {p \in 1 .. Min(Len(pdf_document_1), Len(pdf_document_2)) :
        \/ pdf_document_1[p].width # pdf_document_2[p].width
        \/ pdf_document_1[p].height # pdf_document_2[p].height}

\* The loop has been left, or was never entered, and main has not returned
\* an error.
LoopLeft ==
    /\ pc \in {"save", "verdict", "temp", "result", "release", "exited"}
    /\ exit_code \in {"running", "ok"}

\* C14: no page pair of different width or height is rendered or compared,
\* nor is any page after the first such pair; that pair gets no output page;
\* and when the loop ended at such a pair the differences flag is set and
\* what the run prints and writes is that differences were found.
C14_SizeMismatchEndsLoop ==
    \A m \in MismatchedPages :
        /\ \A k \in 1 .. Len(compared) : compared[k][1] < m
        /\ \A k \in 1 .. Len(rendered) : rendered[k] < m
        /\ \A k \in 1 .. Len(output_pdf) : output_pdf[k].page < m
        /\ index + 1 <= m
        /\ (LoopLeft /\ ~differences_in_number_of_pages /\ index + 1 = m)
           => /\ differences_found_in_document
              /\ console \in {<<>>, <<"Differences were found.">>}
              /\ result_file \in {None, Some(""), Some("Differences were found")}

\* A finished run over two pages, the second pair of different heights:
\* page 1 alone was compared and put in the output document, and the run
\* reported differences.
C14_Witness ==
    /\ pc = "exited" /\ exit_code = "ok"
    /\ cli.output /\ cli.result
    /\ MismatchedPages = {2}
    /\ ComparedPages = <<1>> /\ compared[1][2] = <<>>
    /\ rendered = <<1>>
    /\ OutputPages = <<1>>
    /\ console = <<"Differences were found.">>
    /\ result_file = Some("Differences were found")

(***************************************************************************)
(* Page selectors that are not one of the three words.                     *)
(***************************************************************************)
Literal(sel) == sel \notin {PageAll, PageEven, PageOdd}

\* A string that is not an integer in decimal: not an optional sign
\* followed by digits.
NotANumber(s) ==
    LET body == IF s # <<>> /\ s[1] \in {"+", "-"} THEN Tail(s) ELSE s
    IN  body = <<>> \/ \E i \in 1 .. Len(body) : ~IsDigit(body[i])

\* C15: the rectangles returned whose selector is none of "all", "even",
\* "odd" are, in order, those configured with a selector equal to the page
\* string; an "even" or "odd" rectangle is not returned for a page string
\* that is not a number; and the list returned is empty when every
\* configured selector is a different string or a parity with such a page
\* string.
C15_LiteralSelectors ==
    Selected =>
        LET equal_page(sel) == Literal(sel) /\ sel = page
        IN  /\ SelectSeq(PagesOf(matching_rects), Literal)
                   = SelectSeq(PagesOf(ignored_rectangles), equal_page)
            /\ NotANumber(page) =>
                   \A i \in 1 .. Len(matching_rects) :
                       matching_rects[i].page \notin {PageEven, PageOdd}
            /\ (\A i \in 1 .. Len(ignored_rectangles) :
                    LET sel == ignored_rectangles[i].page
                    IN  \/ Literal(sel) /\ sel # page
                        \/ sel \in {PageEven, PageOdd} /\ NotANumber(page))
               => matching_rects = <<>>

\* Page 3 is resolved against rectangles with the selectors "03" and "3":
\* the second alone is returned.
C15_Witness ==
    /\ Selected
    /\ page = <<"3">>
    /\ PagesOf(ignored_rectangles) = << <<"0", "3">>, <<"3">> >>
    /\ PagesOf(matching_rects) = << <<"3">> >>

\* C16: for every chunk list, repeated origins included, every pixel of a
\* listed chunk that is in the image gets the colour of the three-way table
\* applied to the pixel of the input image.
C16_HighlightTableAnyList ==
    Highlighted =>
        \A p \in Coords(image.width, image.height) :
            InListedChunk(chunks, p) =>
                LET old == get_pixel(image, p[1], p[2])
                    new == get_pixel(new_image, p[1], p[2])
                IN  SubSeq(new, 1, 3) = TableColour(old[1], old[2], old[3])

(***************************************************************************)
(* draw_ignored_rectangles as a state machine: image and ignore_rects are   *)
(* its parameters, new_image its local and result.                         *)
(***************************************************************************)
\* Longest rectangle list handed to draw_ignored_rectangles.
MaxDrawRects == 2

\* Pixel values that are not a border colour, of several alphas.
DrawPalette == << <<255, 255, 255, 255>>, <<0, 0, 255, 0>>, <<10, 20, 30, 128>> >>

DrawImage(w, h) ==
    [width |-> w, height |-> h,
     px |-> [y \in 1 .. h |-> [x \in 1 .. w |-> DrawPalette[((x + 2 * y) % 3) + 1]]]]

DrawSizes == { <<6, 5>>, <<4, 4>> }

\* Corners inside, left of, above, right of and below the image, and at
\* the largest i32.
DrawXs == {-2, 1, 3, 7}
DrawYs == {-2, 0, 2, 3, I32Max}
DrawGridRects ==
    { Rect(PageAll, x1, y1, x2, y2) : x1 \in DrawXs, y1 \in DrawYs, x2 \in DrawXs, y2 \in DrawYs }
DrawListRects ==
    { Rect(PageAll, 1, 0, 3, 3), Rect(PageAll, 0, 1, 2, 2), Rect(PageAll, 3, 2, 7, 9),
      Rect(PageAll, -2, -2, 1, 1) }

InitDraw ==
    /\ pc = "draw"
    /\ \E sz \in DrawSizes : image = DrawImage(sz[1], sz[2])
    /\ \/ ignore_rects = None
       \/ \E r \in DrawGridRects : ignore_rects = Some(<<r>>)
       \/ \E rs \in SeqsUpTo(DrawListRects, MaxDrawRects) : ignore_rects = Some(rs)
    /\ new_image = Unused
    /\ chunks = Unused
    /\ img1 = Unused /\ img2 = Unused /\ differing_chunks = Unused
    /\ ComposeIdle /\ RectIdle /\ GeometryIdle /\ MainIdle

\* images.rs 157-197.  Whether an overflowing addition panics or wraps is
\* the build's choice (overflow checks).
DrawIgnoredRectangles ==
    /\ pc = "draw"
    /\ \E overflow_checks \in BOOLEAN :
          IF /\ overflow_checks
             /\ ignore_rects.is_some
             /\ \E i \in 1 .. Len(ignore_rects.val) : start_overflows(ignore_rects.val[i])
          THEN pc' = "panicked" /\ UNCHANGED new_image
          ELSE /\ new_image' = draw_ignored_rectangles(image, ignore_rects)
               /\ pc' = "drawn"
    /\ UNCHANGED <<image, chunks, img1, img2, ignore_rects, differing_chunks,
                   composeVars, rectVars, geometryVars, mainVars>>

NextDraw == DrawIgnoredRectangles

SpecDraw == InitDraw /\ [][NextDraw]_vars

Drawn == pc = "drawn"

\* The rectangle lies inside the image and has x1 < x2 and y1 < y2.
ProperInside(r, im) ==
    /\ 0 <= r.top_left[1] /\ r.top_left[1] < r.bottom_right[1]
    /\ r.bottom_right[1] < im.width
    /\ 0 <= r.top_left[2] /\ r.top_left[2] < r.bottom_right[2]
    /\ r.bottom_right[2] < im.height

\* The pixel p is on the border of r: on the rows y1 and y2 for x in
\* x1..x2, on the columns x1 and x2 for y strictly between y1 and y2.
OnBorder(r, p) ==
    \/ /\ p[2] \in {r.top_left[2], r.bottom_right[2]}
       /\ r.top_left[1] <= p[1] /\ p[1] <= r.bottom_right[1]
    \/ /\ p[1] \in {r.top_left[1], r.bottom_right[1]}
       /\ r.top_left[2] < p[2] /\ p[2] < r.bottom_right[2]

\* The pixels of the image that draw_ignored_rectangles changed.  No pixel
\* of the images drawn on has a border colour, so a drawn pixel changes.
ChangedPixels ==
    {p \in Coords(image.width, image.height) :
        get_pixel(new_image, p[1], p[2]) # get_pixel(image, p[1], p[2])}

\* C17: for rectangles inside the image with x1 < x2 and y1 < y2, the
\* pixels drawn are exactly the border pixels, the four corners included.
C17_ExactBorder ==
    (/\ Drawn
     /\ ignore_rects.is_some
     /\ \A i \in 1 .. Len(ignore_rects.val) : ProperInside(ignore_rects.val[i], image))
    => ChangedPixels =
           {p \in Coords(image.width, image.height) :
               \E i \in 1 .. Len(ignore_rects.val) : OnBorder(ignore_rects.val[i], p)}

\* C18: every pixel drawn ends as (255,0,0,255) where x + y is even and as
\* (0,0,0,255) where it is odd, whatever its value was.
C18_BorderColourOpaque ==
    Drawn =>
        \A p \in ChangedPixels :
            get_pixel(new_image, p[1], p[2]) =
                IF (p[1] + p[2]) % 2 = 0 THEN <<255, 0, 0, 255>> ELSE <<0, 0, 0, 255>>

\* C19, for draw_ignored_rectangles: for every image size and every
\* rectangle list, corners left of, above and beyond the image included,
\* the function does not fail, and it returns an image of the dimensions of
\* its input, every row and column of which is that of the input.
C19_DrawNeverFails ==
    /\ pc # "panicked"
    /\ Drawn =>
           /\ dimensions(new_image) = dimensions(image)
           /\ Len(new_image.px) = image.height
           /\ \A y \in 1 .. image.height : Len(new_image.px[y]) = image.width

(***************************************************************************)
(* The conversion of inches to pixels.                                     *)
(***************************************************************************)
\* v is the rational n / d, d > 0, rounded to an integer with halves away
\* from zero: n / d lies within a half of v, the half at the far side of
\* zero left out.
IsRoundOf(v, n, d) ==
    IF n >= 0 THEN 2 * v * d - d <= 2 * n /\ 2 * n < 2 * v * d + d
    ELSE 2 * v * d - d < 2 * n /\ 2 * n <= 2 * v * d + d

\* v is inches * 72 * (2000 / H) rounded, inches being the rational <<n, d>>.
IsPixelsOf(v, inches, H) == IsRoundOf(v, inches[1] * 72 * 2000, inches[2] * H)

\* The configured rectangles with the selectors returned, in order.
SourceRects ==
    LET returned(r) ==
            \E i \in 1 .. Len(matching_rects) : matching_rects[i].page = r.page
    IN  SelectSeq(ignored_rectangles, returned)

\* C20: each corner coordinate returned, x as well as y, is the configured
\* coordinate in inches times 72 times 2000 / H, rounded with halves away
\* from zero, H being the page height in points.
C20_InchesToPixels ==
    Selected =>
        /\ Len(SourceRects) = Len(matching_rects)
        /\ \A i \in 1 .. Len(matching_rects) :
               LET out == matching_rects[i]
                   in == SourceRects[i]
               IN  /\ out.page = in.page
                   /\ \A k \in 1 .. 2 :
                          /\ IsPixelsOf(out.top_left[k], in.top_left[k], height_in_points)
                          /\ IsPixelsOf(out.bottom_right[k], in.bottom_right[k],
                                        height_in_points)

\* On a page 1600 points high a quarter of an inch is 22.5 pixels: the
\* corner (-1/4, 1/4) is returned as (-23, 23).
C20_Witness ==
    /\ Selected
    /\ height_in_points = 1600
    /\ Len(matching_rects) >= 1
    /\ matching_rects[1].top_left = <<-23, 23>>
    /\ SourceRects[1].top_left = << <<-1, 4>>, <<1, 4>> >>

\* C21: every corner coordinate returned by get_matching_rectangles is a
\* non-negative integer, whatever the configured inches and the page height.
C21_PixelsNonNegative ==
    Selected =>
        \A i \in 1 .. Len(matching_rects) : \A k \in 1 .. 2 :
            /\ matching_rects[i].top_left[k] \in Nat
            /\ matching_rects[i].bottom_right[k] \in Nat

(***************************************************************************)
(* Rectangle::overlaps and Rectangle::contains as operations of their own. *)
(***************************************************************************)
\* Corner coordinates left of and above the image, on it, and on and
\* beyond the far side of a chunk.
GeometryXs == {-3, -1, 0, 5, 10, 12}
GeometryYs == {-3, 0, 5, 12}
GeometryRects ==
    { Rect(PageAll, x1, y1, x2, y2) :
        x1 \in GeometryXs, y1 \in GeometryYs, x2 \in GeometryXs, y2 \in GeometryYs }
GeometryPoints == {0, 5, 10, 20} \X {0, 5, 10, 20}
GeometrySizes == {3, chunk_size}

InitGeometry ==
    /\ pc = "geometry"
    /\ rectangle \in GeometryRects
    /\ point \in GeometryPoints
    /\ size_arg \in GeometrySizes
    /\ overlaps_result = FALSE
    /\ contains_result = FALSE
    /\ CompareIdle /\ HighlightIdle /\ ComposeIdle /\ RectIdle /\ MainIdle

\* main.rs 84-94.
Overlaps ==
    /\ pc = "geometry"
    /\ overlaps_result' = overlaps(rectangle, point[1], point[2], size_arg)
    /\ pc' = "overlaps returned"
    /\ UNCHANGED <<rectangle, point, size_arg, contains_result,
                   compareVars, highlightVars, composeVars, rectVars, mainVars>>

\* main.rs 97-102.
Contains ==
    /\ pc = "geometry"
    /\ contains_result' = contains(rectangle, point[1], point[2])
    /\ pc' = "contains returned"
    /\ UNCHANGED <<rectangle, point, size_arg, overlaps_result,
                   compareVars, highlightVars, composeVars, rectVars, mainVars>>

NextGeometry == Overlaps \/ Contains

SpecGeometry == InitGeometry /\ [][NextGeometry]_vars

\* C22: overlaps is false exactly when the rectangle is strictly left of,
\* right of, above or below the chunk's box, (x, y) to (x + size, y + size),
\* for rectangles with negative corners as for the others.
C22_OverlapsDisjointness ==
    pc = "overlaps returned" =>
        overlaps_result =
            ~ \/ rectangle.bottom_right[1] < point[1]
              \/ rectangle.top_left[1] > point[1] + size_arg
              \/ rectangle.bottom_right[2] < point[2]
              \/ rectangle.top_left[2] > point[2] + size_arg

\* C23: contains is true exactly when the point lies between the corners,
\* both ends included, for rectangles with negative corners as for the
\* others.
C23_ContainsInclusive ==
    pc = "contains returned" =>
        contains_result =
            /\ rectangle.top_left[1] <= point[1]
            /\ point[1] <= rectangle.bottom_right[1]
            /\ rectangle.top_left[2] <= point[2]
            /\ point[2] <= rectangle.bottom_right[2]

(***************************************************************************)
(* The contents of the composite image.                                    *)
(***************************************************************************)
\* C24: the composite holds A's pixel (x, y) at every x < A.width and B's
\* pixel (x - A.width - 1, y) at every x > A.width, in every row y that the
\* composite and the source image both have.
C24_CompositeContents ==
    Composed =>
        LET A == doc1_page_completed_image
            B == doc2_page_completed_image
        IN  \A y \in 0 .. combined_image.height - 1 :
                /\ y < A.height =>
                       \A x \in 0 .. A.width - 1 :
                           get_pixel(combined_image, x, y) = get_pixel(A, x, y)
                /\ y < B.height =>
                       \A x \in A.width + 1 .. combined_image.width - 1 :
                           get_pixel(combined_image, x, y)
                               = get_pixel(B, x - A.width - 1, y)

\* Two images of the same height and of different contents are combined,
\* and the last pixel of the last row is B's last pixel, not A's.
C24_Witness ==
    /\ Composed
    /\ doc1_page_completed_image.height = 2
    /\ doc2_page_completed_image.height = 2
    /\ doc1_page_completed_image.width = 2
    /\ doc2_page_completed_image.width = 2
    /\ get_pixel(combined_image, 4, 1) = get_pixel(doc2_page_completed_image, 1, 1)
    /\ get_pixel(combined_image, 4, 1) # get_pixel(doc1_page_completed_image, 1, 1)
    /\ get_pixel(combined_image, 0, 0) = get_pixel(doc1_page_completed_image, 0, 0)

(***************************************************************************)
(* The comparison as a whole: which chunks are reported.                   *)
(***************************************************************************)
\* C25: a chunk is reported if and only if some pixel of its tile inside the
\* image differs between the two images and is contained in no ignore
\* rectangle, for every list of ignore rectangles.
C25_ReportedIffUncoveredDifference ==
    Compared =>
        \A c \in ChunkOrigins(img1.width, img1.height) :
            c \in Reported
                <=> \E p \in DiffPixels(img1, img2)
                             \cap TilePixels(c, img1.width, img1.height) :
                        ~InSomeRect(GivenRects, p)

(***************************************************************************)
(* Rectangle lists compared: a list and the lists it extends.              *)
(***************************************************************************)
\* The rectangles of rs at the positions in S, in their order.
RECURSIVE Keep(_, _)
Keep(rs, S) ==
    IF rs = <<>> THEN <<>>
    ELSE Keep(SubSeq(rs, 1, Len(rs) - 1), S)
             \o (IF Len(rs) \in S THEN <<rs[Len(rs)]>> ELSE <<>>)

\* The lists that rs extends: rs with one or more of its rectangles left out.
SubLists(rs) ==
    {Keep(rs, S) : S \in (SUBSET (1 .. Len(rs))) \ {1 .. Len(rs)}}

ChunkSet(cs) == {cs[i] : i \in 1 .. Len(cs)}

\* C26: adding ignore rectangles, in any position, never adds a chunk: the
\* chunks reported with the list given are among those reported with any
\* list it extends; and no list gives the result of the empty list.
C26_MoreRectsFewerChunks ==
    Compared =>
        /\ \A sub \in SubLists(GivenRects) :
               Reported \subseteq
                   ChunkSet(compare_images_in_chunks(img1, img2, Some(sub)))
        /\ GivenRects = <<>> =>
               /\ differing_chunks = compare_images_in_chunks(img1, img2, None)
               /\ differing_chunks
                      = compare_images_in_chunks(img1, img2, Some(<<>>))

\* Two rectangles given, the second put in front of a pixel that differs:
\* the one-rectangle list reports a chunk that the two-rectangle list does
\* not, and the two-rectangle list still reports another.
C26_Witness ==
    /\ Compared
    /\ Len(GivenRects) = 2
    /\ differing_chunks # <<>>
    /\ \E c \in ChunkSet(compare_images_in_chunks(img1, img2,
                             Some(<<GivenRects[1]>>))) : c \notin Reported

(***************************************************************************)
(* The verdict of a run.                                                   *)
(***************************************************************************)
\* The loop reached a page pair of different dimensions: it ends there, with
\* index at that pair.
MismatchProcessed ==
    /\ Len(pdf_document_1) = Len(pdf_document_2)
    /\ index + 1 \in MismatchedPages

\* What the verdict is to be founded on.
DifferencesToReport ==
    \/ Len(pdf_document_1) # Len(pdf_document_2)
    \/ DifferingPages # {}
    \/ MismatchProcessed

\* C27: the line printed at the end of a run is 'Differences were found.'
\* if and only if the page counts differ, or a processed page had a
\* non-empty difference list, or a processed page pair had different
\* dimensions, and 'The PDF documents match.' otherwise; the result file,
\* when written, states the verdict that was printed.
C27_Verdict ==
    /\ pc \in {"temp", "result", "release"} => console # <<>>
    /\ console # <<>> =>
           console = <<(IF DifferencesToReport THEN "Differences were found."
                        ELSE "The PDF documents match.")>>
    /\ (result_file.is_some /\ result_file.val # "") =>
           /\ cli.result
           /\ console # <<>>
           /\ result_file.val \in {"Differences were found", "Documents match"}
           /\ result_file.val = "Differences were found"
                  <=> console[1] = "Differences were found."

\* A finished run over two pages of which the second alone differs: both
\* were compared, and the console and the result file say that differences
\* were found.
C27_Witness ==
    /\ pc = "exited" /\ exit_code = "ok"
    /\ cli.result
    /\ Len(pdf_document_1) = 2 /\ Len(pdf_document_2) = 2
    /\ MismatchedPages = {}
    /\ ComparedPages = <<1, 2>>
    /\ DifferingPages = {2}
    /\ console = <<"Differences were found.">>
    /\ result_file = Some("Differences were found")

(***************************************************************************)
(* Documents of different page counts.                                     *)
(***************************************************************************)
\* C28: when the two documents have different page counts, no page is
\* rendered or compared, the loop is not entered, the output document gets
\* no page and no output file is written; the run goes on to the verdict,
\* and what it prints and writes is that differences were found.
C28_PageCountMismatch ==
    Len(pdf_document_1) # Len(pdf_document_2) =>
        /\ rendered = <<>>
        /\ compared = <<>>
        /\ output_pdf = <<>>
        /\ output_file = None
        /\ pc \notin {"page", "output", "checks"}
        /\ pc \in {"save", "verdict", "temp", "result", "release"}
               => differences_in_number_of_pages
        /\ pc \in {"temp", "result", "release"}
               => console = <<"Differences were found.">>
        /\ console \in {<<>>, <<"Differences were found.">>}
        /\ result_file \in {None, Some(""), Some("Differences were found")}
        /\ (pc = "exited" /\ exit_code = "ok")
               => console = <<"Differences were found.">>

\* A finished run, with output and result file requested, over a document of
\* one page and a document of two: nothing was compared, no output file was
\* written, and the console and the result file say that differences were
\* found.
C28_Witness ==
    /\ pc = "exited" /\ exit_code = "ok"
    /\ cli.output /\ cli.result
    /\ Len(pdf_document_1) = 1 /\ Len(pdf_document_2) = 2
    /\ rendered = <<>> /\ compared = <<>>
    /\ output_pdf = <<>> /\ output_file = None
    /\ console = <<"Differences were found.">>
    /\ result_file = Some("Differences were found")

(***************************************************************************)
(* The license and the comparison.                                         *)
(***************************************************************************)
\* main between the end of the license logic and its return.
AfterLicenseLogic ==
    pc \in {"count", "page", "output", "checks", "save", "verdict", "temp",
            "result", "release"}

\* get_and_store_license_key is running.
InPrompt == pc \in {"prompt", "store"}

\* C29: main goes past the license logic, and pages are rendered or
\* compared, only in a run whose stored key was activated successfully, as
\* the one activation of the run; the only step from the license logic to
\* the comparison is that activation; and get_and_store_license_key does not
\* return: from the prompt the run stays in it or the process ends, with
\* nothing compared.
C29_LoopOnlyAfterActivation ==
    /\ [](AfterLicenseLogic =>
              /\ final_license_key = Some("stored key")
              /\ licensing = <<"activate">>)
    /\ []((rendered # <<>> \/ compared # <<>> \/ console # <<>>) =>
              /\ final_license_key = Some("stored key")
              /\ Len(licensing) >= 1 /\ licensing[1] = "activate")
    /\ [](InPrompt => (rendered = <<>> /\ compared = <<>> /\ ~final_license_key.is_some))
    /\ [][(pc = "license" /\ pc' # "license") =>
             \/ pc' = "count" /\ licensing' = <<"activate">>
                              /\ final_license_key' = Some("stored key")
                              /\ ~cli.license
             \/ pc' = "prompt" /\ licensing' = <<>>
             \/ pc' = "exited" /\ licensing' = <<>>]_vars
    /\ [][InPrompt => (InPrompt' \/ (pc' = "exited" /\ compared' = <<>>))]_vars

\* The second page of a run is about to be compared: the stored key was
\* activated, once, and the license flag was not given.
C29_Witness ==
    /\ pc = "page" /\ index = 1
    /\ ComparedPages = <<1>>
    /\ ~cli.license
    /\ final_license_key = Some("stored key")
    /\ licensing = <<"activate">>

\* The activations and the releases of the run so far.
Activations == {k \in 1 .. Len(licensing) : licensing[k] = "activate"}
Releases == {k \in 1 .. Len(licensing) : licensing[k] = "release"}

\* C30: when the process has ended, every activation of the license in the
\* run has been followed by a release, whatever path the run took after the
\* activation.
C30_ActivatedLicenseReleased ==
    pc = "exited" =>
        \A a \in Activations : \E r \in Releases : a < r

=============================================================================
